---- MODULE Spec2Model ----
(***************************************************************************)
(* Model of foreign_exchange_prediction.py: a Streamlit script that is     *)
(* re-executed top to bottom on every input change (one "render pass").    *)
(* A pass loads the cached historical prices, appends today's user value,  *)
(* fits and queries the forecasting engine, scales the predictions, builds *)
(* the combined frame, a year summary, the chart and the component charts. *)
(*                                                                         *)
(* Numbers are fixed point with Unit parts per 1.0.  A timestamp is a tick *)
(* count since 2024-01-01 00:00 with TicksPerDay ticks per day; CSV dates  *)
(* are at tick 0 of their day.  An optional cell (NaN in pandas) is the    *)
(* empty sequence, a present cell <<v>>.                                   *)
(***************************************************************************)
EXTENDS Integers, Sequences, FiniteSets, TLC

VARIABLES
    file,            \* ./HistoricalPrices.csv on disk: its status and its rows
    cache,           \* st.cache_data entry of load_data(): <<>> or <<frame>>
    readsBy,         \* set of passes in which pd.read_csv read the file
    pass,            \* number of the current render pass
    pc,              \* position of the script in the current pass
    clock,           \* wall clock, in ticks
    current_usd, current_gbp, years,
    df, df_updated, model, forecast, combined_df,
    min_year, max_year, selected_year,
    summary,         \* what lines 69-83 computed and wrote
    trace,           \* the 'Forecast' trace of the chart (lines 98-99)
    default_year,    \* int(datetime.now().year) handed to the year slider
    drift,           \* ticks the clock has advanced since the process started
    out,             \* elements written to the page in this pass, in order
    ran              \* stages of the script executed in this pass, in order

vars == <<file, cache, readsBy, pass, pc, clock, current_usd, current_gbp, years,
          df, df_updated, model, forecast, combined_df, min_year, max_year,
          selected_year, summary, trace, default_year, drift, out, ran>>

\* ---------------------------------------------------------------- bounds
MaxPasses   == 2     \* render passes explored in one process
MaxHorizon  == 1     \* largest horizon explored (the slider allows up to SliderMaxYears)
MaxDrift    == 1     \* ticks the clock may advance while the process runs
TicksPerDay == 2     \* resolution of the clock within one day

\* ------------------------------------------------------- program constants
Unit           == 1000   \* fixed-point parts per 1.0 of a float
MinInput       == 100    \* number_input min_value=0.1
DefaultInput   == 1000   \* number_input value=1.0
SliderMinYears == 1
SliderMaxYears == 10
DaysPerYear    == 365    \* years * 365

NaN    == <<>>
Val(v) == <<v>>
IsNull(c) == c = NaN

Min(a, b) == IF a < b THEN a ELSE b

\* ------------------------------------------------------------- calendar
IsLeap(y) == (y % 4 = 0 /\ y % 100 # 0) \/ y % 400 = 0
DaysIn(y) == IF IsLeap(y) THEN 366 ELSE 365

RECURSIVE YearFrom(_, _)
YearFrom(y, d) == IF d < DaysIn(y) THEN y ELSE YearFrom(y + 1, d - DaysIn(y))

\* Series.dt.year / datetime.year of a timestamp
YearOf(ts) == YearFrom(2024, ts \div TicksPerDay)

\* pd.to_datetime of a CSV date (day number d since 2024-01-01): midnight
Day(d) == d * TicksPerDay

\* timedelta(days=n)
Days(n) == n * TicksPerDay

\* ------------------------------------------------------------ inputs
\* HistoricalPrices.csv variants: rows with a Date (day number) and a Close
FileTwoYears == <<[Date |-> 10, Close |-> 1300], [Date |-> 400, Close |-> 1350]>>
FileGapYear  == <<[Date |-> 10, Close |-> 1300], [Date |-> 20, Close |-> 1400],
                  [Date |-> 30, Close |-> 1400]>>
FileFuture   == <<[Date |-> 1200, Close |-> 1500], [Date |-> 10, Close |-> 1300]>>
FileToday    == <<[Date |-> 900, Close |-> 1300]>>
FileEmpty    == <<>>

Files ==
    {[status |-> "ok", rows |-> r] :
        r \in {FileTwoYears, FileGapYear, FileFuture, FileToday, FileEmpty}}
    \cup {[status |-> "missing", rows |-> <<>>], [status |-> "malformed", rows |-> <<>>]}

\* the process starts late on 2025-12-31 or at 00:00 on 2026-06-19
ClockStarts == {Day(730) + (TicksPerDay - 1), Day(900)}

\* values the user has entered for current_usd and current_gbp
InputChoices ==
    {i \in {[usd |-> 1500, gbp |-> DefaultInput], [usd |-> 2000, gbp |-> 1400]} :
        i.usd >= MinInput /\ i.gbp >= MinInput}
YearChoices == SliderMinYears .. Min(SliderMaxYears, MaxHorizon)

NoModel == [history_dates |-> <<>>, level |-> 0, yearly |-> FALSE]
NoSummary == [kind |-> "none", actual_rate |-> <<>>, adjusted_rate |-> <<>>,
              forecasted_rate |-> <<>>, lines |-> <<>>]

\* ------------------------------------------------------------ helpers
SetMin(S) == CHOOSE x \in S : \A y \in S : x <= y
SetMax(S) == CHOOSE x \in S : \A y \in S : x >= y

RECURSIVE SortSet(_)
SortSet(S) == IF S = {} THEN <<>> ELSE <<SetMin(S)>> \o SortSet(S \ {SetMin(S)})

Column(frame, c) == [i \in 1..Len(frame) |-> frame[i][c]]
ColumnSet(frame, c) == {frame[i][c] : i \in 1..Len(frame)}

\* float product of two fixed-point numbers
Mul(a, b) == (a * b) \div Unit

\* Series.mean(): NaN cells are skipped; num/den, den = 0 is NaN
RECURSIVE SumCells(_, _, _)
SumCells(cells, lo, hi) ==
    IF lo > hi THEN 0
    ELSE IF lo = hi THEN (IF IsNull(cells[lo]) THEN 0 ELSE cells[lo][1])
    ELSE LET mid == (lo + hi) \div 2
         IN SumCells(cells, lo, mid) + SumCells(cells, mid + 1, hi)

Mean(cells) ==
    [num |-> SumCells(cells, 1, Len(cells)),
     den |-> Cardinality({i \in 1..Len(cells) : ~IsNull(cells[i])})]

\* f"{x:.4f}": the value in 1/10000, rounded half to even; NaN prints "nan"
Fmt4(r) ==
    IF r.den = 0 THEN NaN
    ELSE LET n == r.num * (10000 \div Unit)
             q == n \div r.den
             m == n % r.den
         IN Val(IF 2 * m > r.den \/ (2 * m = r.den /\ q % 2 = 1) THEN q + 1 ELSE q)


\* ------------------------------------------------- load_data (lines 9-14)
ReadCsvLenient(f) ==
    [ok |-> TRUE,
     df |-> [i \in 1..Len(f.rows) |->
                [ds |-> Day(f.rows[i].Date), y |-> f.rows[i].Close]]]

\* pd.read_csv + to_datetime + rename: the frame, or the exception raised
ReadCsv(f) ==
    IF f.status = "ok"
    THEN [ok |-> TRUE,
          df |-> [i \in 1..Len(f.rows) |->
                     [ds |-> Day(f.rows[i].Date), y |-> f.rows[i].Close]]]
    ELSE [ok |-> FALSE, df |-> <<>>]

NeverCached(c) == FALSE

\* st.cache_data: is there an entry for load_data()?
IsCached(c) == c # <<>>

\* ------------------------------------------------- the engine (lines 17-26)
\* Prophet.fit: needs two rows; history_dates are the sorted unique ds; yearly
\* seasonality is fitted when the history spans at least two years.  The fit is
\* a deterministic function of the training frame; the fitted trend is taken
\* to be the mean of y (to 0.01), a stand-in for the engine's opaque estimate
CanFit(d) == Len(d) >= 2

RECURSIVE SumY(_, _)
SumY(d, n) == IF n = 0 THEN 0 ELSE d[n].y + SumY(d, n - 1)

Fit(d) ==
    LET dates == ColumnSet(d, "ds")
    IN [history_dates |-> SortSet(dates),
        level |-> 10 * (SumY(d, Len(d)) \div (10 * Len(d))),
        yearly |-> SetMax(dates) - SetMin(dates) >= Days(730)]

\* make_future_dataframe(periods): the history dates, then one date per day
\* after the last history date
MakeFuture(m, periods) ==
    LET h == m.history_dates
        last == h[Len(h)]
    IN h \o [k \in 1..periods |-> last + Days(k)]

YearlyEffect(ts) == 10 * (((ts \div TicksPerDay) % 3) - 1)

\* one row of Prophet.predict
PredictRow(m, ts) ==
    IF m.yearly
    THEN [ds |-> ts, trend |-> m.level, yearly |-> YearlyEffect(ts),
          yhat |-> m.level + YearlyEffect(ts)]
    ELSE [ds |-> ts, trend |-> m.level, yhat |-> m.level]

Predict(m, future) == [i \in 1..Len(future) |-> PredictRow(m, future[i])]

\* 'yearly' in forecast.columns
HasColumn(frame, c) == c \in DOMAIN frame[1]

\* ------------------------------------------------- the blender (lines 44-59)
ConcatPrepend(a, b) == b \o a

\* pd.concat([df, today], ignore_index=True)
Concat(a, b) == a \o b

AdjustRowAndTrend(r, s) ==
    [c \in DOMAIN r \cup {"yhat_adjusted"} |->
        IF c = "yhat_adjusted" THEN Mul(r.yhat, s)
        ELSE IF c = "trend" THEN Mul(r.trend, s) ELSE r[c]]

\* forecast['yhat_adjusted'] = forecast['yhat'] * current_usd, one row
AdjustRow(r, s) ==
    [c \in DOMAIN r \cup {"yhat_adjusted"} |->
        IF c = "yhat_adjusted" THEN Mul(r.yhat, s) ELSE r[c]]

\* pd.concat([df_updated[['ds','y']], forecast[['ds','yhat_adjusted']]]): the
\* columns a part lacks are NaN
HistoryPart(d) ==
    [i \in 1..Len(d) |-> [ds |-> d[i].ds, y |-> Val(d[i].y), yhat_adjusted |-> NaN]]

ForecastPart(f) ==
    [i \in 1..Len(f) |->
        [ds |-> f[i].ds, y |-> NaN, yhat_adjusted |-> Val(f[i].yhat_adjusted)]]

\* Series.fillna(other) on one cell
FillNa(cell, other) == IF IsNull(cell) THEN other ELSE cell

\* lines 58-59; the fillna is an inplace call on a column selection, which
\* updates the frame only when pandas runs without copy-on-write
WithCombined(rows, cow) ==
    [i \in 1..Len(rows) |->
        [ds |-> rows[i].ds, y |-> rows[i].y, yhat_adjusted |-> rows[i].yhat_adjusted,
         y_combined |-> IF cow THEN rows[i].y
                        ELSE FillNa(rows[i].y, rows[i].yhat_adjusted)]]

CombinedFrame(d, f, cow) == WithCombined(Concat(HistoryPart(d), ForecastPart(f)), cow)

\* ------------------------------------------------- the year summary (61-83)
FirstRowYear(frame) == YearOf(frame[1].ds)

MinYear(frame) == SetMin({YearOf(t) : t \in ColumnSet(frame, "ds")})
MaxYear(frame) == SetMax({YearOf(t) : t \in ColumnSet(frame, "ds")})

\* combined_df[combined_df['ds'].dt.year == selected_year]
SelectYear(frame, y) == SelectSeq(frame, LAMBDA r : YearOf(r.ds) = y)

IsPastYear(y, nowYear) == y < nowYear

\* selected_year <= datetime.now().year
IsHistoricalYear(y, nowYear) == y <= nowYear

YearSummaryUnguarded(sel, y, nowYear, usd) ==
    LET actual_rate == Mean(Column(sel, "y"))
        adjusted_rate == [num |-> actual_rate.num * usd, den |-> actual_rate.den * Unit]
    IN [kind |-> "historical",
        actual_rate |-> Val(actual_rate),
        adjusted_rate |-> Val(adjusted_rate),
        forecasted_rate |-> <<>>,
        lines |-> <<Fmt4(actual_rate), Fmt4(adjusted_rate)>>]

YearSummary(sel, y, nowYear, usd) ==
    IF sel # <<>>
    THEN IF IsHistoricalYear(y, nowYear)
         THEN LET actual_rate == Mean(Column(sel, "y"))
                  adjusted_rate == [num |-> actual_rate.num * usd,
                                    den |-> actual_rate.den * Unit]
              IN [kind |-> "historical",
                  actual_rate |-> Val(actual_rate),
                  adjusted_rate |-> Val(adjusted_rate),
                  forecasted_rate |-> <<>>,
                  lines |-> <<Fmt4(actual_rate), Fmt4(adjusted_rate)>>]
         ELSE LET forecasted_rate == Mean(Column(sel, "yhat_adjusted"))
              IN [kind |-> "forecast",
                  actual_rate |-> <<>>,
                  adjusted_rate |-> <<>>,
                  forecasted_rate |-> Val(forecasted_rate),
                  lines |-> <<Fmt4(forecasted_rate)>>]
    ELSE [kind |-> "nodata", actual_rate |-> <<>>, adjusted_rate |-> <<>>,
          forecasted_rate |-> <<>>, lines |-> <<>>]

SummaryElements(s) ==
    IF s.kind = "historical" THEN <<"historical_header", "actual_rate", "adjusted_rate">>
    ELSE IF s.kind = "forecast" THEN <<"forecast_header", "forecasted_rate">>
    ELSE <<"no_data_message">>

\* ------------------------------------------------- the chart (lines 98-99)
ForecastTraceFromLast(f, d) ==
    LET last == SetMax(ColumnSet(d, "ds"))
        kept == SelectSeq(f, LAMBDA r : r.ds >= last)
    IN [i \in 1..Len(kept) |-> [ds |-> kept[i].ds, yhat_adjusted |-> kept[i].yhat_adjusted]]

\* forecast[forecast['ds'] > df_updated['ds'].max()][['ds', 'yhat_adjusted']]
ForecastTrace(f, d) ==
    LET last == SetMax(ColumnSet(d, "ds"))
        kept == SelectSeq(f, LAMBDA r : r.ds > last)
    IN [i \in 1..Len(kept) |-> [ds |-> kept[i].ds, yhat_adjusted |-> kept[i].yhat_adjusted]]


\* ------------------------------------------------- the script, stage by stage
\* datetime.now(): the clock may have moved on since it was last read
Advance == IF drift < MaxDrift THEN {0, 1} ELSE {0}

passVars == <<current_usd, current_gbp, years, df, df_updated, model, forecast,
              combined_df, min_year, max_year, selected_year, summary, trace,
              default_year>>

FreshPass ==
    /\ current_usd = 0 /\ current_gbp = 0 /\ years = 0
    /\ df = <<>> /\ df_updated = <<>> /\ model = NoModel
    /\ forecast = <<>> /\ combined_df = <<>>
    /\ min_year = 0 /\ max_year = 0 /\ selected_year = 0 /\ default_year = 0
    /\ summary = NoSummary /\ trace = <<>>
    /\ out = <<>> /\ ran = <<>>

Init ==
    /\ file \in Files
    /\ cache = <<>>
    /\ readsBy = {}
    /\ pass = 1
    /\ pc = "start"
    /\ clock \in ClockStarts
    /\ drift = 0
    /\ FreshPass

\* lines 29-38: title, byline, sidebar and the three input widgets
Header ==
    /\ pc = "start"
    /\ \E i \in InputChoices, y \in YearChoices :
          /\ current_usd' = i.usd
          /\ current_gbp' = i.gbp
          /\ years' = y
    /\ out' = <<"title", "byline", "sidebar_header", "input_usd", "input_gbp",
                "slider_years">>
    /\ ran' = Append(ran, "header")
    /\ pc' = "load"
    /\ UNCHANGED <<file, cache, readsBy, pass, clock, drift, df, df_updated, model,
                   forecast, combined_df, min_year, max_year, selected_year, summary,
                   trace, default_year>>

\* line 41, cache hit: load_data's body is skipped
LoadCached ==
    /\ pc = "load"
    /\ IsCached(cache)
    /\ df' = cache[1]
    /\ ran' = Append(ran, "load")
    /\ pc' = "append"
    /\ UNCHANGED <<file, cache, readsBy, pass, clock, drift, current_usd, current_gbp,
                   years, df_updated, model, forecast, combined_df, min_year, max_year,
                   selected_year, summary, trace, default_year, out>>

\* line 41, cache miss: the body runs, reads the file and the result is cached
LoadRead ==
    /\ pc = "load"
    /\ ~IsCached(cache)
    /\ ReadCsv(file).ok
    /\ readsBy' = readsBy \cup {pass}
    /\ cache' = <<ReadCsv(file).df>>
    /\ df' = ReadCsv(file).df
    /\ ran' = Append(ran, "load")
    /\ pc' = "append"
    /\ UNCHANGED <<file, pass, clock, drift, current_usd, current_gbp, years,
                   df_updated, model, forecast, combined_df, min_year, max_year,
                   selected_year, summary, trace, default_year, out>>

\* line 41, cache miss and the file is missing or malformed: the exception
\* ends the script; nothing is cached
LoadFail ==
    /\ pc = "load"
    /\ ~IsCached(cache)
    /\ ~ReadCsv(file).ok
    /\ readsBy' = IF file.status = "malformed" THEN readsBy \cup {pass} ELSE readsBy
    /\ ran' = Append(ran, "load")
    /\ out' = Append(out, "exception")
    /\ pc' = "error"
    /\ UNCHANGED <<file, cache, pass, clock, drift>>
    /\ UNCHANGED passVars

\* lines 44-45
AppendToday ==
    /\ pc = "append"
    /\ \E d \in Advance :
          /\ clock' = clock + d
          /\ drift' = drift + d
          /\ LET today == <<[ds |-> clock + d, y |-> current_gbp]>>
             IN df_updated' = Concat(df, today)
    /\ ran' = Append(ran, "append")
    /\ pc' = "train"
    /\ UNCHANGED <<file, cache, readsBy, pass, current_usd, current_gbp, years, df,
                   model, forecast, combined_df, min_year, max_year, selected_year,
                   summary, trace, default_year, out>>

\* line 48
Train ==
    /\ pc = "train"
    /\ CanFit(df_updated)
    /\ model' = Fit(df_updated)
    /\ ran' = Append(ran, "train")
    /\ pc' = "forecast"
    /\ UNCHANGED <<file, cache, readsBy, pass, clock, drift, current_usd, current_gbp,
                   years, df, df_updated, forecast, combined_df, min_year, max_year,
                   selected_year, summary, trace, default_year, out>>

\* line 48 on a frame of fewer than two rows: Prophet raises
TrainFail ==
    /\ pc = "train"
    /\ ~CanFit(df_updated)
    /\ ran' = Append(ran, "train")
    /\ out' = Append(out, "exception")
    /\ pc' = "error"
    /\ UNCHANGED <<file, cache, readsBy, pass, clock, drift>>
    /\ UNCHANGED passVars

\* line 51
GenerateForecast ==
    /\ pc = "forecast"
    /\ forecast' = Predict(model, MakeFuture(model, years * DaysPerYear))
    /\ ran' = Append(ran, "forecast")
    /\ pc' = "adjust"
    /\ UNCHANGED <<file, cache, readsBy, pass, clock, drift, current_usd, current_gbp,
                   years, df, df_updated, model, combined_df, min_year, max_year,
                   selected_year, summary, trace, default_year, out>>

\* line 54
Adjust ==
    /\ pc = "adjust"
    /\ forecast' = [i \in 1..Len(forecast) |-> AdjustRow(forecast[i], current_usd)]
    /\ ran' = Append(ran, "adjust")
    /\ pc' = "combine"
    /\ UNCHANGED <<file, cache, readsBy, pass, clock, drift, current_usd, current_gbp,
                   years, df, df_updated, model, combined_df, min_year, max_year,
                   selected_year, summary, trace, default_year, out>>

\* lines 57-59
Combine ==
    /\ pc = "combine"
    /\ \E cow \in BOOLEAN : combined_df' = CombinedFrame(df_updated, forecast, cow)
    /\ ran' = Append(ran, "combine")
    /\ pc' = "year_slider"
    /\ UNCHANGED <<file, cache, readsBy, pass, clock, drift, current_usd, current_gbp,
                   years, df, df_updated, model, forecast, min_year, max_year,
                   selected_year, summary, trace, default_year, out>>

\* lines 62-64: the slider returns its default or the year the user picked;
\* a default outside the slider's range is an exception
YearSlider ==
    /\ pc = "year_slider"
    /\ min_year' = MinYear(combined_df)
    /\ max_year' = MaxYear(combined_df)
    /\ \E d \in Advance :
          /\ clock' = clock + d
          /\ drift' = drift + d
          /\ default_year' = YearOf(clock + d)
    /\ ran' = Append(ran, "year_slider")
    /\ IF default_year' \in min_year'..max_year'
       THEN /\ selected_year' \in min_year'..max_year'
            /\ out' = Append(out, "year_slider")
            /\ pc' = "summary"
       ELSE /\ selected_year' = selected_year
            /\ out' = Append(out, "exception")
            /\ pc' = "error"
    /\ UNCHANGED <<file, cache, readsBy, pass, current_usd, current_gbp, years, df,
                   df_updated, model, forecast, combined_df, summary, trace>>

\* lines 67-83
Summary ==
    /\ pc = "summary"
    /\ \E d \in Advance :
          /\ clock' = clock + d
          /\ drift' = drift + d
          /\ summary' = YearSummary(SelectYear(combined_df, selected_year),
                                    selected_year, YearOf(clock + d), current_usd)
    /\ out' = out \o SummaryElements(summary')
    /\ ran' = Append(ran, "summary")
    /\ pc' = "chart"
    /\ UNCHANGED <<file, cache, readsBy, pass, current_usd, current_gbp, years, df,
                   df_updated, model, forecast, combined_df, min_year, max_year,
                   selected_year, trace, default_year>>

\* lines 86-128
Chart ==
    /\ pc = "chart"
    /\ trace' = ForecastTrace(forecast, df_updated)
    /\ out' = Append(out, "chart")
    /\ ran' = Append(ran, "chart")
    /\ pc' = "components"
    /\ UNCHANGED <<file, cache, readsBy, pass, clock, drift, current_usd, current_gbp,
                   years, df, df_updated, model, forecast, combined_df, min_year,
                   max_year, selected_year, summary, default_year>>

\* lines 131-158
Components ==
    /\ pc = "components"
    /\ \E checked \in BOOLEAN :
          out' = out \o <<"subheader", "checkbox">> \o
                 (IF ~checked THEN <<>>
                  ELSE IF HasColumn(forecast, "yearly")
                       THEN <<"trend_chart", "yearly_chart">>
                       ELSE <<"trend_chart", "no_yearly_message">>)
    /\ ran' = Append(ran, "components")
    /\ pc' = "done"
    /\ UNCHANGED <<file, cache, readsBy, pass, clock, drift>>
    /\ UNCHANGED passVars

\* the user changes an input: the script runs again from the top
Rerun ==
    /\ pc \in {"done", "error"}
    /\ pass < MaxPasses
    /\ pass' = pass + 1
    /\ pc' = "start"
    /\ current_usd' = 0 /\ current_gbp' = 0 /\ years' = 0
    /\ df' = <<>> /\ df_updated' = <<>> /\ model' = NoModel
    /\ forecast' = <<>> /\ combined_df' = <<>>
    /\ min_year' = 0 /\ max_year' = 0 /\ selected_year' = 0 /\ default_year' = 0
    /\ summary' = NoSummary /\ trace' = <<>>
    /\ out' = <<>> /\ ran' = <<>>
    /\ UNCHANGED <<file, cache, readsBy, clock, drift>>

Next ==
    \/ Header
    \/ LoadCached
    \/ LoadRead
    \/ LoadFail
    \/ AppendToday
    \/ Train
    \/ TrainFail
    \/ GenerateForecast
    \/ Adjust
    \/ Combine
    \/ YearSlider
    \/ Summary
    \/ Chart
    \/ Components
    \/ Rerun

Spec == Init /\ [][Next]_vars


\* ================================================================ properties
Ran(stage) == \E i \in 1..Len(ran) : ran[i] = stage
Shown(element) == \E i \in 1..Len(out) : out[i] = element

\* df_updated['ds'].max()
LastHistorical == SetMax(ColumnSet(df_updated, "ds"))

\* the rows of the combined frame in the selected year
Selection == SelectYear(combined_df, selected_year)

\* C3: once today's row is appended, the merged training frame is the loaded
\* history, unchanged and in its order, followed by exactly one row; it is one
\* longer than the history and its last value is the entered GBP rate.
C3_MergedIsHistoryPlusAnchor ==
    Ran("append") =>
        /\ Len(df_updated) = Len(df) + 1
        /\ SubSeq(df_updated, 1, Len(df)) = df
        /\ df_updated[Len(df_updated)].y = current_gbp

C3_Witness ==
    /\ Ran("append")
    /\ Len(df) = 2
    /\ Len(df_updated) = 3
    /\ df_updated[3].y = 1400


\* C6: the scaling step gives every prediction an adjusted value equal to its
\* raw value times current_usd, exactly, and leaves the rows' timestamp, raw
\* value, trend and yearly seasonality (and the number of rows) as they were.
C6_ScalingOnlyAddsAdjusted ==
    [][pc = "adjust" =>
          /\ Len(forecast') = Len(forecast)
          /\ \A i \in 1..Len(forecast) :
                /\ DOMAIN forecast'[i] = DOMAIN forecast[i] \cup {"yhat_adjusted"}
                /\ \A c \in DOMAIN forecast[i] : forecast'[i][c] = forecast[i][c]
                /\ forecast'[i].yhat_adjusted * Unit = forecast[i].yhat * current_usd]_vars

C6_Witness ==
    /\ Ran("adjust")
    /\ current_usd = 1500
    /\ HasColumn(forecast, "yearly")
    /\ \E i \in 1..Len(forecast) :
          /\ forecast[i].yhat # forecast[i].trend
          /\ forecast[i].yhat_adjusted * 2 = forecast[i].yhat * 3

\* C4 (as claimed): in every row of the combined frame exactly one of y and
\* yhat_adjusted is present, and y_combined is the one that is present.
C4_RowInvariant ==
    Ran("combine") =>
        \A i \in 1..Len(combined_df) :
            LET r == combined_df[i]
            IN /\ IsNull(r.y) # IsNull(r.yhat_adjusted)
               /\ r.y_combined = (IF ~IsNull(r.y) THEN r.y ELSE r.yhat_adjusted)

\* C1 (as claimed): the only rows of the combined frame that carry an adjusted
\* prediction are those dated strictly after the last historical timestamp.
C1_BlendedKeepsOnlyFuture ==
    Ran("combine") =>
        \A i \in 1..Len(combined_df) :
            ~IsNull(combined_df[i].yhat_adjusted) => combined_df[i].ds > LastHistorical

\* C1 (amended): the chart's forecast trace holds exactly the predictions
\* dated strictly after the last historical timestamp, in order, while the
\* combined frame discards nothing: it carries one adjusted-prediction row for
\* every prediction, those at or before that timestamp included.  (Stated
\* where the chart has just been built; nothing changes these frames later.)
C1_TraceKeepsOnlyFuture ==
    pc = "components" =>
        LET k == Len(forecast) - Len(trace)
            last == LastHistorical
        IN /\ k >= 0
           /\ \A i \in 1..k : forecast[i].ds <= last
           /\ \A j \in 1..Len(trace) :
                 /\ trace[j].ds > last
                 /\ trace[j].ds = forecast[k + j].ds
                 /\ trace[j].yhat_adjusted = forecast[k + j].yhat_adjusted
           /\ Len(trace) = years * DaysPerYear
           /\ Len(combined_df) = Len(df_updated) + Len(forecast)
           /\ \A i \in 1..Len(forecast) :
                 LET r == combined_df[Len(df_updated) + i]
                 IN /\ r.ds = forecast[i].ds
                    /\ r.yhat_adjusted = Val(forecast[i].yhat_adjusted)

C1_Witness ==
    /\ pc = "components"
    /\ trace # <<>>
    /\ \E i \in 1..Len(combined_df) :
          /\ ~IsNull(combined_df[i].yhat_adjusted)
          /\ combined_df[i].ds < LastHistorical


\* the calendar year read at line 70; the clock is not read again in the pass
SummaryYear == YearOf(clock)

\* C2: when the selection is not empty, a selected year up to the current year
\* reports the mean of y over the selected rows (NaN cells skipped) and, as the
\* second figure, that mean times current_usd; a later year reports the mean
\* of yhat_adjusted over the selected rows.  Each figure is printed to four
\* decimals.  (Stated where the summary has just been written.)
C2_YearSummary ==
    pc = "chart" =>
        LET sel == Selection
        IN sel # <<>> =>
            IF selected_year <= SummaryYear
            THEN LET mean == Mean(Column(sel, "y"))
                     adjusted == summary.adjusted_rate[1]
                 IN /\ summary.kind = "historical"
                    /\ summary.actual_rate = Val(mean)
                    /\ adjusted.num = mean.num * current_usd
                    /\ adjusted.den = mean.den * Unit
                    /\ summary.forecasted_rate = <<>>
                    /\ summary.lines = <<Fmt4(mean), Fmt4(adjusted)>>
            ELSE LET mean == Mean(Column(sel, "yhat_adjusted"))
                 IN /\ summary.kind = "forecast"
                    /\ summary.forecasted_rate = Val(mean)
                    /\ summary.actual_rate = <<>> /\ summary.adjusted_rate = <<>>
                    /\ summary.lines = <<Fmt4(mean)>>

\* the year is the current one, its observed values are 1.30 and 1.40, the
\* scale is 2.0: 1.3500 and 2.7000 are printed
C2_Witness ==
    /\ pc = "chart"
    /\ selected_year = SummaryYear
    /\ current_usd = 2000
    /\ {Selection[i].y : i \in 1..Len(Selection)} = {NaN, Val(1300), Val(1400)}
    /\ summary.kind = "historical"
    /\ summary.actual_rate = Val([num |-> 2700, den |-> 2])
    /\ summary.lines = <<Val(13500), Val(27000)>>

\* C5: when no row of the combined frame falls in the selected year, the
\* summary is the "no data" message and no average is computed; no exception
\* is raised and the pass goes on to the chart and the component charts.
\* (Right after the summary the "no data" outcome is exactly the empty
\* selection; from then on the pass is followed through that outcome.)
C5_EmptyYearSelection ==
    /\ pc = "chart" => (Selection = <<>> <=> summary.kind = "nodata")
    /\ summary.kind = "nodata" =>
          /\ summary = [kind |-> "nodata", actual_rate |-> <<>>, adjusted_rate |-> <<>>,
                        forecasted_rate |-> <<>>, lines |-> <<>>]
          /\ Shown("no_data_message")
          /\ ~Shown("actual_rate") /\ ~Shown("adjusted_rate") /\ ~Shown("forecasted_rate")
          /\ ~Shown("exception")
          /\ pc \in {"chart", "components", "done"}
          /\ (pc = "chart" => ENABLED Chart)
          /\ (pc = "components" => Shown("chart") /\ ENABLED Components)
          /\ (pc = "done" => Shown("chart") /\ Shown("subheader") /\ Shown("checkbox"))

C5_Witness ==
    /\ pc = "done"
    /\ Selection = <<>>
    /\ min_year < selected_year /\ selected_year < max_year
    /\ summary.kind = "nodata"
    /\ Shown("chart")
    /\ Shown("trend_chart")

\* C9: the year slider's bounds are the least and the greatest calendar year
\* among the timestamps of the combined frame, and its default, the current
\* calendar year, lies within them.  (The bounds are compared with the frame
\* where the slider has just been built.)
C9_YearSliderRange ==
    /\ pc = "summary" =>
          LET ys == {YearOf(t) : t \in ColumnSet(combined_df, "ds")}
          IN /\ min_year \in ys /\ max_year \in ys
             /\ \A y \in ys : min_year <= y /\ y <= max_year
             /\ default_year = YearOf(clock)
    /\ Ran("year_slider") =>
          /\ min_year <= default_year /\ default_year <= max_year
          /\ selected_year \in min_year..max_year
          /\ ~Shown("exception")

C9_Witness ==
    /\ pc = "summary"
    /\ YearOf(combined_df[1].ds) > default_year
    /\ min_year < default_year
    /\ default_year < max_year

\* C10 (as claimed): a non-empty selection is never averaged over no values:
\* up to the current year some selected row has a y, after it some selected
\* row has a yhat_adjusted.
C10_AverageOverSomeValue ==
    (Ran("summary") /\ Selection # <<>>) =>
        /\ summary.kind = "historical" => summary.actual_rate[1].den > 0
        /\ summary.kind = "forecast" => summary.forecasted_rate[1].den > 0


\* C7 (as claimed): only the first pass reads the historical file.
C7_ReadOnlyByFirstPass == readsBy \subseteq {1}

\* C7 (amended): the file is read only while no pass has loaded it yet: once a
\* load has succeeded exactly one pass has read the file without failing and
\* every later pass takes the cached frame; the cached frame is what the file
\* held and never changes; each pass's merged frame is the cached frame plus
\* one row built from that pass's clock and GBP input.
C7_LoadOnceNoCarriedState ==
    /\ cache # <<>> =>
          /\ cache = <<ReadCsv(file).df>>
          /\ Cardinality(readsBy) = 1
          /\ \A p \in readsBy : p <= pass
    /\ (~cache # <<>> /\ file.status = "ok") => readsBy = {}
    /\ (Ran("load") /\ pc # "error") =>
          /\ cache # <<>>
          /\ df = cache[1]
          /\ (pass \notin readsBy => \E p \in readsBy : p < pass)
    /\ Ran("append") =>
          /\ Len(df_updated) = Len(cache[1]) + 1
          /\ SubSeq(df_updated, 1, Len(cache[1])) = cache[1]
          /\ df_updated[Len(df_updated)].y = current_gbp
          /\ df_updated[Len(df_updated)].ds <= clock
          /\ df_updated[Len(df_updated)].ds >= clock - drift

C7_Witness ==
    /\ pass = 2
    /\ readsBy = {1}
    /\ Ran("append")
    /\ Len(cache[1]) = 3
    /\ Len(df_updated) = 4
    /\ df_updated[4].y = 1400

\* a pass whose load raised: the file is missing or malformed
LoadFailed == file.status # "ok" /\ Ran("load")

\* C8 (as claimed): when the load fails nothing is rendered in the pass and
\* no later stage runs.
C8_NothingRenders ==
    LoadFailed =>
        /\ \A i \in 1..Len(out) : out[i] = "exception"
        /\ ran[Len(ran)] = "load"
        /\ pc = "error"

\* C8 (amended): when the load fails the pass ends there: the title, the
\* byline, the sidebar header and the three input controls, written before
\* the load, stay on the page followed by the exception; no year slider, no
\* summary, no chart and no component is rendered and no later stage runs.
C8_LoadErrorEndsPass ==
    LoadFailed =>
        /\ pc = "error"
        /\ ran = <<"header", "load">>
        /\ out = <<"title", "byline", "sidebar_header", "input_usd", "input_gbp",
                   "slider_years", "exception">>
        /\ cache = <<>>
        /\ df = <<>> /\ df_updated = <<>> /\ model = NoModel
        /\ forecast = <<>> /\ combined_df = <<>>
        /\ summary = NoSummary /\ trace = <<>>
        /\ ~ENABLED (AppendToday \/ Train \/ TrainFail \/ GenerateForecast \/ Adjust
                     \/ Combine \/ YearSlider \/ Summary \/ Chart \/ Components)

C8_Witness ==
    /\ LoadFailed
    /\ file.status = "missing"
    /\ pass = 2
    /\ Shown("exception")

====
